---- MODULE Spec2Model ----
(***************************************************************************)
(* Model of the CloudFormation custom resource of the gaming analytics     *)
(* pipeline: custom_resource.lambda_handler (dispatch, create,             *)
(* returnSuccess, sendResponse) and redshift_setup.init (the privilege     *)
(* bootstrap run under @timeout(20)).                                      *)
(*                                                                         *)
(* One behaviour is one invocation of lambda_handler.  The steps are the   *)
(* code segments between two external interactions (database connect,      *)
(* statement, commit, the HTTP PUT of the callback, the clock).            *)
(***************************************************************************)
EXTENDS Integers, Sequences, FiniteSets, TLC

\* ------------------------------------------------------------------ bounds
\* Cap on the HTTP PUT attempts that may fail in one invocation (the
\* recursion of sendResponse has no bound of its own).
MaxFailures == 4

\* --------------------------------------------------------- program constants
\* @timeout(20) on redshift_setup.init
TimeoutSecs == 20

\* custom_resource.py:55,63 the address of the automated tests
Sentinel == "http://pre-signed-S3-url-for-response"

\* Mutation: the schema is created (and its privileges revoked) before the
\* users are.
Statements_SchemaBeforeUsers ==
  << "REVOKE TEMP ON DATABASE db FROM PUBLIC",
     "REVOKE ALL PRIVILEGES ON SCHEMA public FROM PUBLIC",
     "REVOKE ALL PRIVILEGES ON SCHEMA information_schema FROM PUBLIC",
     "REVOKE ALL PRIVILEGES ON SCHEMA pg_catalog FROM PUBLIC",
     "CREATE SCHEMA IF NOT EXISTS schema AUTHORIZATION worker",
     "REVOKE ALL PRIVILEGES ON SCHEMA schema FROM PUBLIC",
     "CREATE USER worker",
     "CREATE USER readonly",
     "SET search_path",
     "GRANT USAGE ON SCHEMA schema TO worker",
     "GRANT USAGE ON SCHEMA information_schema TO worker",
     "GRANT USAGE ON SCHEMA pg_catalog TO worker",
     "GRANT TEMP ON DATABASE db TO worker",
     "GRANT SELECT ON stv_tbl_perm TO worker",
     "GRANT USAGE ON SCHEMA schema TO readonly",
     "GRANT USAGE ON SCHEMA information_schema TO readonly",
     "GRANT USAGE ON SCHEMA pg_catalog TO readonly",
     "GRANT SELECT ON stv_tbl_perm TO readonly",
     "GRANT USAGE ON LANGUAGE plpythonu TO readonly" >>

\* The cursor.execute calls of redshift_setup.init, in program order.
Statements ==
  << "REVOKE TEMP ON DATABASE db FROM PUBLIC",
     "REVOKE ALL PRIVILEGES ON SCHEMA public FROM PUBLIC",
     "REVOKE ALL PRIVILEGES ON SCHEMA information_schema FROM PUBLIC",
     "REVOKE ALL PRIVILEGES ON SCHEMA pg_catalog FROM PUBLIC",
     "CREATE USER worker",
     "CREATE USER readonly",
     "CREATE SCHEMA IF NOT EXISTS schema AUTHORIZATION worker",
     "REVOKE ALL PRIVILEGES ON SCHEMA schema FROM PUBLIC",
     "SET search_path",
     "GRANT USAGE ON SCHEMA schema TO worker",
     "GRANT USAGE ON SCHEMA information_schema TO worker",
     "GRANT USAGE ON SCHEMA pg_catalog TO worker",
     "GRANT TEMP ON DATABASE db TO worker",
     "GRANT SELECT ON stv_tbl_perm TO worker",
     "GRANT USAGE ON SCHEMA schema TO readonly",
     "GRANT USAGE ON SCHEMA information_schema TO readonly",
     "GRANT USAGE ON SCHEMA pg_catalog TO readonly",
     "GRANT SELECT ON stv_tbl_perm TO readonly",
     "GRANT USAGE ON LANGUAGE plpythonu TO readonly" >>

\* ------------------------------------------------------------------ inputs
\* The keys redshift_setup.init reads from event['ResourceProperties'].
PropNames ==
  { "Username", "Password", "DatabaseName", "Host", "Port",
    "WorkerUsername", "WorkerPassword", "ReadOnlyUsername",
    "ReadOnlyPassword", "SchemaName" }

\* A value of a property is a string, kept as its sequence of characters.
Digits == { "0", "1", "2", "3", "4", "5", "6", "7", "8", "9" }

ValidProps ==
  [ n \in PropNames |-> IF n = "Port" THEN << "5", "4", "3", "9" >> ELSE << "x" >> ]

BadPortProps ==
  [ n \in PropNames |-> IF n = "Port" THEN << "5", "4", "x" >> ELSE << "x" >> ]

EmptyPortProps ==
  [ n \in PropNames |-> IF n = "Port" THEN << >> ELSE << "x" >> ]

MissingSchemaProps ==
  [ n \in PropNames \ { "SchemaName" } |->
      IF n = "Port" THEN << "5", "4", "3", "9" >> ELSE << "x" >> ]

EmptyProps == [ n \in {} |-> << >> ]

PropsChoices ==
  { ValidProps, BadPortProps, EmptyPortProps, MissingSchemaProps, EmptyProps }

RequestTypes == { "Create", "Update", "Delete", "Other" }

ResponseURLs == { Sentinel, "https://cloudformation-custom-resource-response/put" }

LogicalResourceIds == { "MyResource" }

\* context.log_stream_name: the names the Lambda runtime gives its log streams
LogStreamNames == { "2017/11/01/[$LATEST]aaaa", "2017/11/01/[$LATEST]bbbb" }

\* str(uuid.uuid4()): 36 characters, five hyphen-separated hex groups
UUIDs == { "16fd2706-8baf-433b-82eb-8c7fada847da",
           "886313e1-3b8a-4372-9b90-0c9aee199e5d" }

VARIABLES
  event,      \* the lifecycle event of the invocation
  logStream,  \* context.log_stream_name
  pc,         \* position of lambda_handler
  ipc,        \* position of redshift_setup.init
  elapsed,    \* seconds since init was entered
  executed,   \* the statements the cursor has executed, in order
  connected,  \* pg8000.connect returned
  committed,  \* conn.commit returned
  commitCalls,\* number of calls of conn.commit
  initCalls,  \* number of calls of redshift_setup.init
  initResult, \* what init returned ("none" before it returns)
  initError,  \* what made init fail ("none" when nothing did)
  timedOut,   \* the deadline guard cut init short
  frames,     \* the active (nested) calls of sendResponse, outermost first
  reports,    \* the response bodies built, in order
  attempts,   \* the requests.put calls made, in order
  retval,     \* what the outermost sendResponse call returned last
  sends       \* number of outermost sendResponse calls made by the handler

vars ==
  << event, logStream, pc, ipc, elapsed, executed, connected, committed,
     commitCalls, initCalls, initResult, initError, timedOut, frames, reports, attempts, retval,
     sends >>

dbVars == << executed, connected, committed, commitCalls >>
sendVars == << frames, reports, attempts, retval, sends >>

\* ------------------------------------------------------------ pure helpers
\* int(s) of redshift_setup.py:38 succeeds: an optional sign and digits.
ParsesAsInt(s) ==
  LET body == IF Len(s) > 0 /\ s[1] \in { "+", "-" } THEN Tail(s) ELSE s
  IN  /\ Len(body) > 0
      /\ \A i \in 1..Len(body) : body[i] \in Digits

\* The property reads of redshift_setup.py:33-44 raise nothing.
PropsReadable(rp) ==
  /\ \A n \in PropNames : n \in DOMAIN rp
  /\ ParsesAsInt(rp["Port"])

\* Mutation: the Reason is put in every body, whatever the status.
ResponseBody_ReasonAlways(responseStatus, resourceId) ==
  [ Status |-> responseStatus,
    PhysicalResourceId |-> resourceId,
    StackId |-> event.StackId,
    RequestId |-> event.RequestId,
    LogicalResourceId |-> event.LogicalResourceId,
    Reason |-> logStream ]

\* custom_resource.py:41-50
ResponseBody(responseStatus, resourceId) ==
  LET body == [ Status |-> responseStatus,
                PhysicalResourceId |-> resourceId,
                StackId |-> event.StackId,
                RequestId |-> event.RequestId,
                LogicalResourceId |-> event.LogicalResourceId ]
  IN  IF responseStatus = "FAILED"
        THEN body @@ [ Reason |-> logStream ]
        ELSE body

\* Mutation: the exact-match test of the address is lost.
IsSentinel_Never(url) == FALSE

\* custom_resource.py:55 (and :63)
IsSentinel(url) == url = Sentinel

\* custom_resource.py:56: what the try block returns for the sentinel
SentinelReturn(responseStatus) == "SUCCESS"

\* Mutation: the result of init is not looked at.
CreateStatus_AlwaysSuccess(result) == "SUCCESS"

\* custom_resource.py:73-76
CreateStatus(result) == IF result = "True" THEN "SUCCESS" ELSE "FAILED"

\* Mutation: create reports the log-stream name on its normal path too.
CreateResourceId_LogStream(result, u) == logStream

\* custom_resource.py:78
CreateResourceId(result, u) == u

\* Mutation: returnSuccess reports the log-stream name.
ReturnSuccessId_LogStream == logStream

\* custom_resource.py:90
ReturnSuccessId == event.LogicalResourceId

\* Mutation: create and returnSuccess lose their except blocks.
Catches_None(site) == FALSE

\* custom_resource.py:81 and :92: the call sites whose raise is caught
Catches(site) == site \in { "create_try", "rs_try" }

\* Mutation: the except block reports the status of the try block again.
ExceptStatus_Success(site) == "SUCCESS"

\* custom_resource.py:83 and :94: the status the except block reports
ExceptStatus(site) == "FAILED"

\* The handler's exception path: custom_resource.py:83-85 and :94-95
ExceptSite(site) == IF site = "create_try" THEN "create_exc" ELSE "rs_exc"
ExceptResourceId(site) ==
  IF site = "create_try" THEN logStream ELSE event.LogicalResourceId

NumFailed == Cardinality({ i \in 1..Len(attempts) : ~attempts[i].ok })
NumDelivered == Cardinality({ i \in 1..Len(attempts) : attempts[i].ok })

\* -------------------------------------------------------------------- Init
Init ==
  /\ event \in [ RequestType : RequestTypes,
                 ResponseURL : ResponseURLs,
                 StackId : { "stack-1" },
                 RequestId : { "req-1" },
                 LogicalResourceId : LogicalResourceIds,
                 ResourceProperties : PropsChoices ]
  /\ logStream \in LogStreamNames
  /\ pc = "start"
  /\ ipc = "idle"
  /\ elapsed = 0
  /\ executed = << >>
  /\ connected = FALSE
  /\ committed = FALSE
  /\ commitCalls = 0
  /\ initCalls = 0
  /\ initResult = "none"
  /\ initError = "none"
  /\ timedOut = FALSE
  /\ frames = << >>
  /\ reports = << >>
  /\ attempts = << >>
  /\ retval = "none"
  /\ sends = 0

\* ------------------------------------------------------------ sendResponse
\* A call of sendResponse by the handler, from call site `site`, up to its
\* requests.put: custom_resource.py:40-58.
CallSendResponse(site, responseStatus, resourceId) ==
  /\ reports' = Append(reports, ResponseBody(responseStatus, resourceId))
  /\ sends' = sends + 1
  /\ attempts' = attempts
  /\ IF IsSentinel(event.ResponseURL)
       THEN /\ retval' = SentinelReturn(responseStatus)
            /\ frames' = << >>
            /\ pc' = "done"
       ELSE /\ retval' = "none"
            /\ frames' = << [ status |-> responseStatus, id |-> resourceId ] >>
            /\ pc' = site

\* requests.put returns: custom_resource.py:58-59.  The innermost call
\* returns None; every enclosing call is in its except block and re-raises
\* (:67-68), so the outermost call returns normally only when it is the
\* innermost one.  A raise is caught at :81 / :92 by the first call site of
\* create / returnSuccess, whose except block calls sendResponse again, and
\* escapes lambda_handler from the second.
PutOk ==
  /\ pc \in { "create_try", "create_exc", "rs_try", "rs_exc" }
  /\ frames # << >>
  /\ LET f == frames[Len(frames)]
         sent == Append(attempts, [ call |-> sends, body |-> ResponseBody(f.status, f.id), ok |-> TRUE ])
     IN  IF Len(frames) = 1
           THEN /\ attempts' = sent
                /\ retval' = "None"
                /\ frames' = << >>
                /\ pc' = "done"
                /\ UNCHANGED << reports, sends >>
           ELSE IF Catches(pc)
             THEN /\ reports' = Append(reports, ResponseBody(ExceptStatus(pc), ExceptResourceId(pc)))
                  /\ sends' = sends + 1
                  /\ attempts' = sent
                  /\ retval' = "none"
                  /\ frames' = << [ status |-> ExceptStatus(pc), id |-> ExceptResourceId(pc) ] >>
                  /\ pc' = ExceptSite(pc)
             ELSE /\ attempts' = sent
                  /\ retval' = "raised"
                  /\ frames' = << >>
                  /\ pc' = "raised"
                  /\ UNCHANGED << reports, sends >>
  /\ UNCHANGED << event, logStream, ipc, elapsed, dbVars, initCalls, initResult, initError, timedOut >>

\* requests.put raises: custom_resource.py:61-66.  The except block forces
\* the status to FAILED and calls sendResponse again with the same resource
\* identifier; that call builds its body and reaches its own requests.put.
PutFail ==
  /\ pc \in { "create_try", "create_exc", "rs_try", "rs_exc" }
  /\ frames # << >>
  /\ NumFailed < MaxFailures
  /\ LET f == frames[Len(frames)]
     IN  /\ attempts' = Append(attempts, [ call |-> sends, body |-> ResponseBody(f.status, f.id),
                                         ok |-> FALSE ])
         /\ reports' = Append(reports, ResponseBody("FAILED", f.id))
         /\ frames' = Append(frames, [ status |-> "FAILED", id |-> f.id ])
  /\ UNCHANGED << event, logStream, pc, ipc, elapsed, dbVars, initCalls, initResult,
                  initError, timedOut, retval, sends >>

\* redshift_setup.py:94: what init returns after conn.commit() returned
CommitResult == "True"

\* Mutation: the except block of init returns True.
ExceptResult_True == "True"

\* redshift_setup.py:96-98: what init returns from its except block
ExceptResult == "False"

\* ------------------------------------------------ create, after init returns
\* Mutation: the passing of the deadline reaches create as an exception, so
\* that its except block (custom_resource.py:81-85) makes the report.
InitReturns_TimeoutRaises(result, err) ==
  /\ initResult' = result
  /\ initError' = err
  /\ IF err = "timeout"
       THEN CallSendResponse("create_exc", "FAILED", logStream)
       ELSE \E u \in UUIDs :
              CallSendResponse("create_try", CreateStatus(result), CreateResourceId(result, u))

\* custom_resource.py:73-79: the status from init's result, a fresh uuid,
\* and the call of sendResponse.
InitReturns(result, err) ==
  /\ initResult' = result
  /\ initError' = err
  /\ \E u \in UUIDs :
       CallSendResponse("create_try", CreateStatus(result), CreateResourceId(result, u))

\* ------------------------------------------------------------ lambda_handler
\* custom_resource.py:33-34, create (:70-73) and init up to pg8000.connect
\* (redshift_setup.py:32-49).  A property that is missing, or a Port that
\* int() rejects, raises inside init's try block: init returns False.
HandleCreate ==
  /\ pc = "start"
  /\ event.RequestType = "Create"
  /\ initCalls' = initCalls + 1
  /\ IF PropsReadable(event.ResourceProperties)
       THEN /\ pc' = "init"
            /\ ipc' = "connect"
            /\ UNCHANGED << initResult, initError, sendVars >>
       ELSE /\ ipc' = "returned"
            /\ InitReturns(ExceptResult, "props")
  /\ UNCHANGED << event, logStream, elapsed, dbVars, timedOut >>

\* Mutation: the dispatch sends every event to create.
HandleOther_CallsCreate ==
  /\ pc = "start"
  /\ event.RequestType # "Create"
  /\ initCalls' = initCalls + 1
  /\ IF PropsReadable(event.ResourceProperties)
       THEN /\ pc' = "init"
            /\ ipc' = "connect"
            /\ UNCHANGED << initResult, initError, sendVars >>
       ELSE /\ ipc' = "returned"
            /\ InitReturns(ExceptResult, "props")
  /\ UNCHANGED << event, logStream, elapsed, dbVars, timedOut >>

\* custom_resource.py:36-37 and returnSuccess (:87-90)
HandleOther ==
  /\ pc = "start"
  /\ event.RequestType # "Create"
  /\ CallSendResponse("rs_try", "SUCCESS", ReturnSuccessId)
  /\ UNCHANGED << event, logStream, ipc, elapsed, dbVars, initCalls, initResult, initError, timedOut >>

\* ------------------------------------------------------- redshift_setup.init
\* pg8000.connect returns, and conn.cursor(): redshift_setup.py:49-52
ConnectOk ==
  /\ pc = "init" /\ ipc = "connect" /\ elapsed < TimeoutSecs
  /\ connected' = TRUE
  /\ ipc' = "execute"
  /\ UNCHANGED << event, logStream, pc, elapsed, executed, committed, commitCalls,
                  initCalls, initResult, initError, timedOut, sendVars >>

\* pg8000.connect raises: caught at redshift_setup.py:95, init returns False
ConnectFail ==
  /\ pc = "init" /\ ipc = "connect" /\ elapsed < TimeoutSecs
  /\ ipc' = "returned"
  /\ InitReturns(ExceptResult, "connect")
  /\ UNCHANGED << event, logStream, elapsed, dbVars, initCalls, timedOut >>

\* The next cursor.execute returns: redshift_setup.py:55-89
ExecuteOk ==
  /\ pc = "init" /\ ipc = "execute" /\ elapsed < TimeoutSecs
  /\ executed' = Append(executed, Statements[Len(executed) + 1])
  /\ ipc' = IF Len(executed) + 1 = Len(Statements) THEN "commit" ELSE "execute"
  /\ UNCHANGED << event, logStream, pc, elapsed, connected, committed, commitCalls,
                  initCalls, initResult, initError, timedOut, sendVars >>

\* The next cursor.execute raises: caught at redshift_setup.py:95
ExecuteFail ==
  /\ pc = "init" /\ ipc = "execute" /\ elapsed < TimeoutSecs
  /\ ipc' = "returned"
  /\ InitReturns(ExceptResult, "statement")
  /\ UNCHANGED << event, logStream, elapsed, dbVars, initCalls, timedOut >>

\* conn.commit() returns and init returns True: redshift_setup.py:91-94
CommitOk ==
  /\ pc = "init" /\ ipc = "commit" /\ elapsed < TimeoutSecs
  /\ commitCalls' = commitCalls + 1
  /\ committed' = TRUE
  /\ ipc' = "returned"
  /\ InitReturns(CommitResult, "none")
  /\ UNCHANGED << event, logStream, elapsed, executed, connected, initCalls, timedOut >>

\* conn.commit() raises: caught at redshift_setup.py:95
CommitFail ==
  /\ pc = "init" /\ ipc = "commit" /\ elapsed < TimeoutSecs
  /\ ipc' = "returned"
  /\ commitCalls' = commitCalls + 1
  /\ InitReturns(ExceptResult, "commit")
  /\ UNCHANGED << event, logStream, elapsed, executed, connected, committed, initCalls,
                  timedOut >>

\* ------------------------------------------------------------ deadline guard
\* A second passes while init waits for the database.
Tick ==
  /\ pc = "init" /\ elapsed < TimeoutSecs
  /\ elapsed' = elapsed + 1
  /\ UNCHANGED << event, logStream, pc, ipc, dbVars, initCalls, initResult, initError, timedOut, sendVars >>

\* What the guarded call yields to create when the deadline passes.
TimeoutResult == "False"

\* The deadline passes: the guard ends the call without waiting for the
\* database operation in progress, which is abandoned.
InitTimeout ==
  /\ pc = "init" /\ elapsed = TimeoutSecs
  /\ timedOut' = TRUE
  /\ ipc' = "abandoned"
  /\ InitReturns(TimeoutResult, "timeout")
  /\ UNCHANGED << event, logStream, elapsed, dbVars, initCalls >>

\* ---------------------------------------------------------- specification
Next ==
  \/ HandleCreate
  \/ HandleOther
  \/ ConnectOk
  \/ ConnectFail
  \/ ExecuteOk
  \/ ExecuteFail
  \/ CommitOk
  \/ CommitFail
  \/ Tick
  \/ InitTimeout
  \/ PutOk
  \/ PutFail

Spec == Init /\ [][Next]_vars

\* The handler runs on one thread that is never starved, and the clock of
\* the deadline guard advances; nothing is assumed of the database.
LiveSpec ==
  /\ Init /\ [][Next]_vars
  /\ WF_vars(HandleCreate) /\ WF_vars(HandleOther)
  /\ WF_vars(Tick) /\ WF_vars(InitTimeout)

TypeOK ==
  /\ pc \in { "start", "init", "create_try", "create_exc", "rs_try", "rs_exc", "done", "raised" }
  /\ ipc \in { "idle", "connect", "execute", "commit", "returned", "abandoned" }
  /\ elapsed \in 0..TimeoutSecs
  /\ initResult \in { "none", "True", "False" }
  /\ initError \in { "none", "props", "connect", "statement", "commit", "timeout" }
  /\ Len(executed) <= Len(Statements)
  /\ retval \in { "none", "None", "SUCCESS", "FAILED", "raised" }

\* ================================================================== claims
\* Every requests.put of the invocation returned (none raised).
AllDelivered == NumFailed = 0

\* The requests.put calls made within the c-th sendResponse call of the handler
AttemptsOfCall(c) == { i \in 1..Len(attempts) : attempts[i].call = c }

\* C1: a Create event whose bootstrap fails (init returns False) and whose
\* callback delivery succeeds produces exactly one report, with status
\* FAILED and the log-stream name as PhysicalResourceId.
C1_FailedCreateReportsLogStream ==
  ( /\ event.RequestType = "Create"
    /\ initResult = "False"
    /\ pc = "done"
    /\ Len(attempts) = 1
    /\ attempts[1].ok )
  => /\ Len(reports) = 1
     /\ reports[1].Status = "FAILED"
     /\ reports[1].PhysicalResourceId = logStream

\* C2: one call of sendResponse by the handler causes at most two
\* requests.put attempts, whatever their outcomes.
C2_AtMostTwoAttemptsPerCall ==
  \A c \in 1..sends : Cardinality(AttemptsOfCall(c)) <= 2

\* C3: in one invocation at most one status report is delivered.
C3_AtMostOneDelivered == NumDelivered <= 1

\* C4: an event that is not a Create, with delivery succeeding, produces
\* exactly one report: SUCCESS with the event's LogicalResourceId, whatever
\* the ResourceProperties are.
C4_NonCreateSuccess ==
  ( /\ event.RequestType # "Create"
    /\ pc \in { "done", "raised" }
    /\ AllDelivered )
  => /\ pc = "done"
     /\ Len(reports) = 1
     /\ reports[1].Status = "SUCCESS"
     /\ reports[1].PhysicalResourceId = event.LogicalResourceId
     /\ \A i \in 1..Len(attempts) : attempts[i].body = reports[1]
     /\ Len(attempts) = IF event.ResponseURL = Sentinel THEN 0 ELSE 1

C4_Witness ==
  /\ event.RequestType = "Other"
  /\ event.ResourceProperties = EmptyProps
  /\ pc = "done"
  /\ Len(attempts) = 1
  /\ attempts[1].ok
  /\ attempts[1].body.Status = "SUCCESS"

\* C5: a Create event whose bootstrap returns True, with delivery
\* succeeding, produces exactly one report: SUCCESS with a freshly generated,
\* non-empty PhysicalResourceId that is not the log-stream name.
C5_CreateSuccess ==
  ( /\ event.RequestType = "Create"
    /\ initResult = "True"
    /\ pc \in { "done", "raised" }
    /\ AllDelivered )
  => /\ pc = "done"
     /\ Len(reports) = 1
     /\ reports[1].Status = "SUCCESS"
     /\ reports[1].PhysicalResourceId \in UUIDs
     /\ reports[1].PhysicalResourceId # ""
     /\ reports[1].PhysicalResourceId # logStream
     /\ \A i \in 1..Len(attempts) : attempts[i].body = reports[1]
     /\ Len(attempts) = IF event.ResponseURL = Sentinel THEN 0 ELSE 1

C5_Witness ==
  /\ event.RequestType = "Create"
  /\ initResult = "True"
  /\ committed
  /\ pc = "done"
  /\ Len(attempts) = 1
  /\ attempts[1].ok
  /\ attempts[1].body.Status = "SUCCESS"

\* C6: with the sentinel address, what sendResponse returns matches the
\* status of the report: "FAILED" for a FAILED report, "SUCCESS" for a
\* SUCCESS one.
C6_SentinelReturnMatchesStatus ==
  ( /\ event.ResponseURL = Sentinel
    /\ pc = "done" )
  => /\ Len(reports) = 1
     /\ retval = reports[1].Status

\* C7: with the sentinel address no requests.put is made, in any state of
\* the invocation, whatever the RequestType and the outcome of the bootstrap.
C7_SentinelNoHttp ==
  event.ResponseURL = Sentinel => ( attempts = << >> /\ frames = << >> )

C7_Witness ==
  /\ event.ResponseURL = Sentinel
  /\ event.RequestType = "Create"
  /\ initError = "statement"
  /\ pc = "done"
  /\ Len(reports) = 1
  /\ attempts = << >>

\* C8: once the deadline has passed with init still running, a FAILED report
\* is eventually made, with the bootstrap's work left wherever it stood
\* (not committed): the report does not wait for the bootstrap to complete.
C8_TimeoutLeadsToFailedReport ==
  ( pc = "init" /\ elapsed = TimeoutSecs )
    ~> ( /\ timedOut
         /\ ~committed
         /\ Len(reports) >= 1
         /\ reports[1].Status = "FAILED" )

C8_Witness ==
  /\ timedOut
  /\ elapsed = TimeoutSecs
  /\ ipc = "abandoned"
  /\ Len(executed) < Len(Statements)
  /\ ~committed
  /\ Len(reports) >= 1
  /\ reports[1].Status = "FAILED"

\* C9: an error escapes lambda_handler only after a delivery attempt failed
\* and a later, follow-up attempt (one that reports FAILED) failed too.  No
\* outcome of the bootstrap makes the handler raise, and neither does a
\* single failed delivery.
C9_EscapeOnlyAfterSecondFailure ==
  pc = "raised" =>
    \E i, j \in 1..Len(attempts) :
      /\ i < j
      /\ ~attempts[i].ok
      /\ ~attempts[j].ok
      /\ attempts[j].body.Status = "FAILED"

C9_Witness ==
  /\ pc = "raised"
  /\ NumFailed = 2
  /\ event.RequestType = "Create"
  /\ initError = "props"

\* C10: init returns True exactly when every statement of the sequence was
\* executed and the commit succeeded; whatever fails (a property, the Port,
\* the connection, a statement, the commit) makes it return False, and it
\* always returns a value.
C10_InitTrueIffCommitted ==
  ( initCalls > 0 /\ pc # "init" )
  => /\ initResult \in { "True", "False" }
     /\ initResult = "True" <=> ( executed = Statements /\ committed )
     /\ initError # "none" => initResult = "False"
     /\ ~PropsReadable(event.ResourceProperties) => initError = "props"

C10_Witness ==
  /\ initError = "commit"
  /\ initResult = "False"
  /\ executed = Statements
  /\ ~committed
  /\ pc # "init"

\* The fields a body has with and without a Reason
BaseFields == { "Status", "PhysicalResourceId", "StackId", "RequestId", "LogicalResourceId" }

\* C11: every body built by sendResponse (first call, follow-up call, the
\* handler's exception path) and every body put on the wire has a Reason
\* exactly when its Status is FAILED, and the Reason is the log-stream name.
C11_ReasonIffFailed ==
  /\ \A i \in 1..Len(reports) :
       /\ "Reason" \in DOMAIN reports[i] <=> reports[i].Status = "FAILED"
       /\ DOMAIN reports[i] \ { "Reason" } = BaseFields
       /\ "Reason" \in DOMAIN reports[i] => reports[i].Reason = logStream
  /\ \A i \in 1..Len(attempts) :
       /\ "Reason" \in DOMAIN attempts[i].body <=> attempts[i].body.Status = "FAILED"
       /\ "Reason" \in DOMAIN attempts[i].body => attempts[i].body.Reason = logStream

\* A SUCCESS body, its follow-up and the body of the exception path
C11_Witness ==
  /\ Len(reports) = 3
  /\ sends = 2
  /\ reports[1].Status = "SUCCESS" /\ "Reason" \notin DOMAIN reports[1]
  /\ reports[2].Status = "FAILED" /\ reports[2].Reason = logStream
  /\ reports[3].Status = "FAILED" /\ reports[3].Reason = logStream
  /\ pc = "done"

\* The order of the bootstrap as the groups of statements that follow one
\* another; the grants of one identity form one group.
C12_Groups ==
  << { "REVOKE TEMP ON DATABASE db FROM PUBLIC" },
     { "REVOKE ALL PRIVILEGES ON SCHEMA public FROM PUBLIC" },
     { "REVOKE ALL PRIVILEGES ON SCHEMA information_schema FROM PUBLIC" },
     { "REVOKE ALL PRIVILEGES ON SCHEMA pg_catalog FROM PUBLIC" },
     { "CREATE USER worker" },
     { "CREATE USER readonly" },
     { "CREATE SCHEMA IF NOT EXISTS schema AUTHORIZATION worker" },
     { "REVOKE ALL PRIVILEGES ON SCHEMA schema FROM PUBLIC" },
     { "SET search_path" },
     { "GRANT USAGE ON SCHEMA schema TO worker",
       "GRANT USAGE ON SCHEMA information_schema TO worker",
       "GRANT USAGE ON SCHEMA pg_catalog TO worker",
       "GRANT TEMP ON DATABASE db TO worker",
       "GRANT SELECT ON stv_tbl_perm TO worker" },
     { "GRANT USAGE ON SCHEMA schema TO readonly",
       "GRANT USAGE ON SCHEMA information_schema TO readonly",
       "GRANT USAGE ON SCHEMA pg_catalog TO readonly",
       "GRANT SELECT ON stv_tbl_perm TO readonly",
       "GRANT USAGE ON LANGUAGE plpythonu TO readonly" } >>

C12_AllStatements == UNION { C12_Groups[g] : g \in 1..Len(C12_Groups) }

\* The statements executed before the i-th one
C12_Before(i) == { executed[k] : k \in 1..(i - 1) }

C12_InOrder ==
  /\ \A i \in 1..Len(executed) :
       /\ executed[i] \notin C12_Before(i)
       /\ \E g \in 1..Len(C12_Groups) :
            /\ executed[i] \in C12_Groups[g]
            /\ \A h \in 1..(g - 1) : C12_Groups[h] \subseteq C12_Before(i)
  /\ commitCalls <= 1
  /\ commitCalls = 1 => { executed[k] : k \in 1..Len(executed) } = C12_AllStatements
  /\ committed => commitCalls = 1
  /\ executed # << >> => connected

\* C12: the statements execute in the fixed order revoke (database temp,
\* schemas public, information_schema, pg_catalog), create worker, create
\* read-only user, create schema, revoke on schema, search path, worker
\* grants, read-only grants; each only after all earlier ones succeeded;
\* the commit is issued at most once and only after all of them; after a
\* failure (of a statement, the connection, the commit, or the deadline) no
\* statement and no commit is issued.
C12_FixedOrder ==
  /\ [] C12_InOrder
  /\ [][ initError # "none" => ( executed' = executed /\ commitCalls' = commitCalls ) ]_vars

\* The seventh statement failed after six succeeded, and the handler went on
C12_Witness ==
  /\ initError = "statement"
  /\ Len(executed) = 6
  /\ executed[6] = "CREATE USER readonly"
  /\ commitCalls = 0
  /\ pc = "done"

\* What create reports first when the bootstrap did not succeed
C13_FirstReportOfFailure ==
  /\ Len(reports) >= 1
  /\ reports[1].Status = "FAILED"
  /\ reports[1].PhysicalResourceId \in UUIDs
  /\ reports[1].Reason = logStream

C14_AtMostOnce ==
  /\ initCalls <= 1
  /\ initCalls = 1 => event.RequestType = "Create"
  /\ event.RequestType # "Create" =>
       ( ~connected /\ executed = << >> /\ commitCalls = 0 /\ ipc = "idle" )
  /\ connected => initCalls = 1

\* C14: init is called at most once per invocation and only for a Create
\* event; an event of another type opens no database session; once create
\* is past init (its report, the failed deliveries, its exception path)
\* init is not called again and the database is not touched again.
C14_BootstrapAtMostOnce ==
  /\ [] C14_AtMostOnce
  /\ [][ pc \notin { "start", "init" } =>
           ( initCalls' = initCalls /\ UNCHANGED dbVars ) ]_vars

\* create's exception path has run after a failed delivery
C14_Witness ==
  /\ event.RequestType = "Create"
  /\ initCalls = 1
  /\ connected
  /\ sends = 2
  /\ NumFailed >= 1
  /\ pc \in { "done", "raised" }

\* C15: within one invocation the reported status never improves: after a
\* requests.put of a FAILED body (the follow-up of sendResponse, or the
\* exception path of create or returnSuccess) every later requests.put, and
\* the one in progress, carries FAILED as well.
C15_StatusNeverImproves ==
  /\ \A i, j \in 1..Len(attempts) :
       ( i < j /\ attempts[i].body.Status = "FAILED" )
         => attempts[j].body.Status = "FAILED"
  /\ ( \E i \in 1..Len(attempts) : attempts[i].body.Status = "FAILED" )
       => ( frames # << >> => frames[Len(frames)].status = "FAILED" )

\* SUCCESS was tried, then the follow-up, then the exception path
C15_Witness ==
  /\ Len(attempts) = 3
  /\ attempts[1].body.Status = "SUCCESS" /\ ~attempts[1].ok
  /\ attempts[2].body.Status = "FAILED" /\ attempts[2].call = 1
  /\ attempts[3].body.Status = "FAILED" /\ attempts[3].call = 2

====
